---- MODULE Spec2Model ----
(***************************************************************************)
(* Model of src/scraper.py: the Encuentra24 housing scraper.               *)
(*                                                                         *)
(* Text.  A Python str is modelled as the sequence of its lexemes.  Each   *)
(* of the characters  /  \  "  '  ]  s  and the blank is a lexeme of its   *)
(* own, and so is each of the literals  http  u002F  photo ; every other   *)
(* lexeme is a run of characters that holds none of them.  The literals    *)
(* the code searches for (BASE_URL, "http", "\\u002F", "\\/", the photo    *)
(* host) are whole sequences of lexemes, so startswith, in, replace,       *)
(* rstrip, split and the regular expressions act on lexemes exactly as     *)
(* they act on the characters.                                             *)
(***************************************************************************)
EXTENDS Integers, Sequences, FiniteSets, TLC

\* ---------------------------------------------------------------- bounds
MaxPage == 3          \* catalog pages a category can serve
MaxListings == 2      \* largest max_listings tried (the code passes 50)
MaxItems == 2         \* insight attributes, and icon tiles, on one detail page
MaxGallery == 2       \* gallery elements on one detail page

\* ---------------------------------------------------------------- text
BS == "\\"
SL == "/"

StartsWith(s, p) == Len(s) >= Len(p) /\ SubSeq(s, 1, Len(p)) = p

\* Python: p in s
Contains(s, p) == \E k \in 1..(Len(s) - Len(p) + 1) : SubSeq(s, k, k + Len(p) - 1) = p

\* Python: s.replace(pat, rep), leftmost non-overlapping occurrences
RECURSIVE ReplaceAll(_, _, _)
ReplaceAll(s, pat, rep) ==
    IF Len(s) < Len(pat) THEN s
    ELSE IF SubSeq(s, 1, Len(pat)) = pat
         THEN rep \o ReplaceAll(SubSeq(s, Len(pat) + 1, Len(s)), pat, rep)
         ELSE <<Head(s)>> \o ReplaceAll(Tail(s), pat, rep)

\* Python: s.rstrip("/")
RECURSIVE RStripSlash(_)
RStripSlash(s) ==
    IF Len(s) > 0 /\ s[Len(s)] = SL THEN RStripSlash(SubSeq(s, 1, Len(s) - 1)) ELSE s

\* Python: s.split("/")[-1]
RECURSIVE LastSegment(_)
LastSegment(s) ==
    IF Len(s) = 0 THEN <<>>
    ELSE IF s[Len(s)] = SL THEN <<>>
    ELSE LastSegment(SubSeq(s, 1, Len(s) - 1)) \o <<s[Len(s)]>>

\* ---------------------------------------------------------------- URLs
BASE_URL == <<"http", "s", ":", SL, SL, "www.encuentra24.com">>
SALE_URL ==
    BASE_URL \o <<SL, "el-", "s", "alvador-e", "s", SL, "biene", "s", "-raice", "s",
                  "-venta-de-propiedade", "s", "-ca", "s", "a", "s">>
RENT_URL ==
    BASE_URL \o <<SL, "el-", "s", "alvador-e", "s", SL, "biene", "s", "-raice", "s",
                  "-alquiler-ca", "s", "a", "s">>

make_absolute_url(href) ==
    IF StartsWith(href, <<"http">>) THEN href ELSE BASE_URL \o href

\* ---------------------------------------------------------------- maps
EmptyMap == [k \in {} |-> <<>>]

\* Python: m[k] = v
Put(m, k, v) == [x \in (DOMAIN m) \cup {k} |-> IF x = k THEN v ELSE m[x]]

\* Python: m.get(k, "")
Get(m, k) == IF k \in DOMAIN m THEN m[k] ELSE <<>>

\* Python: a or b, on str
OrElse(a, b) == IF a # <<>> THEN a ELSE b

\* ---------------------------------------------------------------- parse_specs
(* A label is modelled as the sequence of its words, written without      *)
(* accents; `kw in label` is the occurrence of the keyword's words.  A     *)
(* value is a text the code only copies.                                   *)
Lower(w) ==
    CASE w = "Area" -> "area"
      [] w = "Banos" -> "banos"
      [] w = "Precio" -> "precio"
      [] w = "Recamaras" -> "recamaras"
      [] OTHER -> w

LowerAll(label) == [k \in 1..Len(label) |-> Lower(label[k])]

HasWord(label, w) == \E k \in 1..Len(label) : label[k] = w

\* one iteration of the loop over .d3-property-insight__attribute
InsightItem(specs0, item) ==
    IF item.label_el /\ item.value_el
    THEN LET label == LowerAll(item.label)
             value == item.value
         IN IF HasWord(label, "area") \/ HasWord(label, "m2") \/ HasWord(label, "construida")
            THEN Put(specs0, "area", value)
            ELSE IF HasWord(label, "recamaras") \/ HasWord(label, "habitaciones")
            THEN Put(specs0, "bedrooms", value)
            ELSE IF HasWord(label, "banos")
            THEN Put(specs0, "bathrooms", value)
            ELSE IF HasWord(label, "estacionamientos") \/ HasWord(label, "parqueo")
            THEN Put(specs0, "parking", value)
            ELSE IF HasWord(label, "precio")
            THEN Put(specs0, "price_per_m2", value)
            ELSE specs0
    ELSE specs0

\* one iteration of the loop over .d3-ad-tile__details-item
TileItem(specs0, item) ==
    IF item.use_el /\ item.span_el
    THEN LET href == item.href
             value == item.value
         IN IF HasWord(href, "#resize") THEN Put(specs0, "area", value)
            ELSE IF HasWord(href, "#bed") THEN Put(specs0, "bedrooms", value)
            ELSE IF HasWord(href, "#bath") THEN Put(specs0, "bathrooms", value)
            ELSE IF HasWord(href, "#parking") THEN Put(specs0, "parking", value)
            ELSE specs0
    ELSE specs0

RECURSIVE InsightPass(_, _)
InsightPass(specs0, items) ==
    IF items = <<>> THEN specs0
    ELSE InsightPass(InsightItem(specs0, Head(items)), Tail(items))

RECURSIVE TilePass(_, _)
TilePass(specs0, items) ==
    IF items = <<>> THEN specs0
    ELSE TilePass(TileItem(specs0, Head(items)), Tail(items))

parse_specs(insights, tiles) == TilePass(InsightPass(EmptyMap, insights), tiles)

\* ---------------------------------------------------------------- parse_images
PHOTO_HOST == <<"photo", "s", ".encuentra24.com">>
PHOTO_PREFIX == <<"http", "s", ":", SL, SL>> \o PHOTO_HOST

\* the characters the class [^"\'\\s]+ of line 129 excludes: the raw string
\* r'[^"\'\\s]+' holds the escapes \' and \\ followed by the letter s
StopScript == {"\"", "'", BS, "s"}
\* line 137 excludes ] as well
StopBlob == StopScript \cup {"]"}

RECURSIVE RunLen(_, _)
RunLen(text, stop) ==
    IF text = <<>> \/ Head(text) \in stop THEN 0 ELSE 1 + RunLen(Tail(text), stop)

\* re.findall(PHOTO_PREFIX [^stop]+, text): leftmost matches, each as long as
\* the class allows, the search resuming after a match
RECURSIVE FindAll(_, _)
FindAll(text, stop) ==
    LET n == Len(PHOTO_PREFIX) IN
    IF Len(text) <= n THEN <<>>
    ELSE IF StartsWith(text, PHOTO_PREFIX) /\ text[n + 1] \notin stop
         THEN LET r == RunLen(SubSeq(text, n + 1, Len(text)), stop)
              IN <<SubSeq(text, 1, n + r)>> \o FindAll(SubSeq(text, n + r + 1, Len(text)), stop)
         ELSE FindAll(Tail(text), stop)

InSeq(x, s) == \E k \in 1..Len(s) : s[k] = x

\* for url in photo_urls: if url not in images: images.append(url)
RECURSIVE AppendNew(_, _)
AppendNew(imgs, found) ==
    IF found = <<>> THEN imgs
    ELSE AppendNew(IF InSeq(Head(found), imgs) THEN imgs ELSE Append(imgs, Head(found)),
                   Tail(found))

\* Method 1 (lines 117-123), one element
GalleryImg(imgs, img) ==
    LET src == OrElse(img.data_src, img.src) IN
    IF src # <<>> /\ Contains(src, PHOTO_HOST) THEN Append(imgs, src)
    ELSE IF src # <<>> /\ StartsWith(src, <<"http">>) THEN Append(imgs, src)
    ELSE imgs

RECURSIVE GalleryPass(_, _)
GalleryPass(imgs, els) ==
    IF els = <<>> THEN imgs ELSE GalleryPass(GalleryImg(imgs, Head(els)), Tail(els))

\* Method 2 (lines 126-132)
RECURSIVE ScriptPass(_, _)
ScriptPass(imgs, scripts) ==
    IF scripts = <<>> THEN imgs
    ELSE ScriptPass(AppendNew(imgs, FindAll(Head(scripts), StopScript)), Tail(scripts))

\* Method 3 (lines 135-140)
BlobData(el) == OrElse(el.data_gallery, OrElse(el.data_images, el.data_photo))

RECURSIVE BlobPass(_, _)
BlobPass(imgs, els) ==
    IF els = <<>> THEN imgs
    ELSE BlobPass(AppendNew(imgs, FindAll(BlobData(Head(els)), StopBlob)), Tail(els))

\* line 147: img.replace("\\u002F", "/").replace("\\/", "/")
CleanUrl(img) == ReplaceAll(ReplaceAll(img, <<BS, "u002F">>, <<SL>>), <<BS, SL>>, <<SL>>)

\* lines 143-150
RECURSIVE Deduplicate(_, _)
Deduplicate(unique, imgs) ==
    IF imgs = <<>> THEN unique
    ELSE LET img == CleanUrl(Head(imgs))
         IN Deduplicate(IF InSeq(img, unique) THEN unique ELSE Append(unique, img), Tail(imgs))

parse_images(gallery, scripts, blobs) ==
    Deduplicate(<<>>, BlobPass(ScriptPass(GalleryPass(<<>>, gallery), scripts), blobs))

\* ---------------------------------------------------------------- parse_details
\* Python: s.replace(pat, "", 1)
RECURSIVE RemoveFirst(_, _)
RemoveFirst(s, pat) ==
    IF Len(s) < Len(pat) THEN s
    ELSE IF SubSeq(s, 1, Len(pat)) = pat THEN SubSeq(s, Len(pat) + 1, Len(s))
    ELSE <<Head(s)>> \o RemoveFirst(Tail(s), pat)

\* Python: s.strip(), the blank being the white space of the model
RECURSIVE Strip(_)
Strip(s) ==
    IF Len(s) > 0 /\ Head(s) = " " THEN Strip(Tail(s))
    ELSE IF Len(s) > 0 /\ s[Len(s)] = " " THEN Strip(SubSeq(s, 1, Len(s) - 1))
    ELSE s

\* one iteration of the loop over .d3-property-details__detail
DetailRow(details0, row) ==
    IF row.label_el
    THEN LET label == Strip(row.label)
             value == Strip(RemoveFirst(Strip(row.full_text), label))
         IN IF label # <<>> /\ value # <<>> THEN Put(details0, label, value) ELSE details0
    ELSE details0

RECURSIVE DetailRows(_, _)
DetailRows(details0, rows) ==
    IF rows = <<>> THEN details0 ELSE DetailRows(DetailRow(details0, Head(rows)), Tail(rows))

parse_details(rows) == DetailRows(EmptyMap, rows)

\* ---------------------------------------------------------------- transport
(* requests.get(url, headers=HEADERS, timeout=15) raises on a timeout and  *)
(* on a connection error; for any status code it returns the response,     *)
(* whose text the code parses (no raise_for_status, no status test).       *)
Raises(outcome) == outcome \in {"timeout", "connection_error"}

\* ---------------------------------------------------------------- scrape_listing
None == [none |-> TRUE]

\* an element the page may lack is <<>> when absent, <<text>> when present;
\* Python: (a or b).get_text(strip=True) if (a or b) else ""
TextOf(a, b) == IF a # <<>> THEN Strip(a[1]) ELSE IF b # <<>> THEN Strip(b[1]) ELSE <<>>

\* line 197 without the rstrip
external_id_unstripped(url) == LastSegment(url)

\* lines 196-197
external_id_of(url) == LastSegment(RStripSlash(url))

scrape_listing(url, listing_type, outcome, doc) ==
    IF Raises(outcome) THEN None
    ELSE LET title == TextOf(doc.h1, doc.title)
             price0 == TextOf(doc.estate_price, doc.d3_price)
             price == IF price0 = <<>> THEN doc.text_price ELSE price0
             specs0 == parse_specs(doc.insights, doc.tiles)
             details == parse_details(doc.details)
             location0 == Get(details, <<"Localizacion">>)
             location == IF location0 = <<>> THEN TextOf(doc.d3_location, doc.location)
                         ELSE location0
             published_date == Get(details, <<"Publicado">>)
             description == TextOf(doc.about_text, doc.description_content)
             imgs == parse_images(doc.gallery, doc.scripts, doc.blobs)
         IN [title |-> title, price |-> price, location |-> location,
             published_date |-> published_date, listing_type |-> listing_type,
             url |-> url, external_id |-> external_id_of(url), specs |-> specs0,
             details |-> details, description |-> description, images |-> imgs]

\* the test of lines 227 and 238 left out
TruthyAlways(data) == TRUE

\* Python: if data
Truthy(data) == data # None

\* ---------------------------------------------------------------- inputs
\* href attributes of listing anchors; <<>> is an anchor without href
HrefA == <<SL, "a">>
HrefB == <<SL, "b", SL>>
HrefAbsA == BASE_URL \o HrefA

SeqsUpTo(S, n) == UNION {[1..k -> S] : k \in 0..n}

\* the a.d3-ad-tile__description anchors of one catalog page, by href
PageLinks ==
    {<<>>, <<<<>>>>, <<HrefA>>, <<HrefA, HrefAbsA>>, <<HrefB, HrefA>>, <<<<>>, HrefB>>}

\* what one fetch of a catalog page can bring
CatalogResponses ==
    [outcome : {"timeout", "connection_error"}, links : {<<>>}]
        \cup [outcome : {"ok"}, links : PageLinks]
        \cup [outcome : {"http_error"}, links : {<<>>, <<HrefA>>, <<HrefB, HrefA>>}]

\* detail pages
ImgPlain == [data_src |-> PHOTO_PREFIX \o <<SL, "a.jpg">>, src |-> <<>>]
ImgEscaped == [data_src |-> <<>>, src |-> PHOTO_PREFIX \o <<BS, SL, "a.jpg">>]
ImgUnicode == [data_src |-> <<>>, src |-> PHOTO_PREFIX \o <<BS, "u002F", "a.jpg">>]
ImgTwice == [data_src |-> <<>>, src |-> PHOTO_PREFIX \o <<BS, BS, SL, "a.jpg">>]
ImgOther == [data_src |-> <<>>, src |-> <<"http", ":", SL, SL, "cdn", SL, "x.png">>]
ImgRelative == [data_src |-> <<>>, src |-> <<SL, "logo.png">>]

ScriptQuoted == <<"{", "\"", "img", "\"", ":", "\"">> \o PHOTO_PREFIX \o <<SL, "b.jpg", "\"", "}">>
ScriptBlank == <<"var", " ", "p", "=">> \o PHOTO_PREFIX \o <<SL, "b.jpg", " ", "x">>
ScriptCasas == <<"\"">> \o PHOTO_PREFIX \o <<SL, "ca", "s", "a", "s", SL, "1.jpg", "\"">>
ScriptEscaped == <<"\"">> \o PHOTO_PREFIX \o <<BS, SL, "a.jpg", "\"">>

BlobList == [data_gallery |-> <<"[">> \o PHOTO_PREFIX \o <<SL, "c.jpg", "]">>,
             data_images |-> <<>>, data_photo |-> <<>>]
BlobPhoto == [data_gallery |-> <<>>, data_images |-> <<>>,
              data_photo |-> PHOTO_PREFIX \o <<SL, "a.jpg">>]

InsightArea == [label_el |-> TRUE, label |-> <<"Area", "construida">>,
                value_el |-> TRUE, value |-> <<"120", " ", "m2">>]
InsightBeds == [label_el |-> TRUE, label |-> <<"Recamaras">>,
                value_el |-> TRUE, value |-> <<"3">>]
InsightBaths == [label_el |-> TRUE, label |-> <<"banos">>,
                 value_el |-> TRUE, value |-> <<"2">>]
InsightParking == [label_el |-> TRUE, label |-> <<"parqueo">>,
                   value_el |-> TRUE, value |-> <<"1">>]
InsightPrice == [label_el |-> TRUE, label |-> <<"Precio">>,
                 value_el |-> TRUE, value |-> <<"900">>]
InsightNoValue == [label_el |-> TRUE, label |-> <<"area">>,
                   value_el |-> FALSE, value |-> <<>>]

TileArea == [use_el |-> TRUE, href |-> <<"icon.svg", "#resize">>,
             span_el |-> TRUE, value |-> <<"95", " ", "m2">>]
TileBeds == [use_el |-> TRUE, href |-> <<"#bed", "-icon">>,
             span_el |-> TRUE, value |-> <<"4">>]
TileBaths == [use_el |-> TRUE, href |-> <<"#bath">>, span_el |-> TRUE, value |-> <<"1">>]
TileParking == [use_el |-> TRUE, href |-> <<"#parking">>, span_el |-> TRUE, value |-> <<"2">>]
TileNoIcon == [use_el |-> FALSE, href |-> <<>>, span_el |-> TRUE, value |-> <<"7">>]

RowLocation == [label_el |-> TRUE, label |-> <<"Localizacion">>,
                full_text |-> <<"Localizacion", "San", " ", "Salvador">>]
RowPublished == [label_el |-> TRUE, label |-> <<"Publicado">>,
                 full_text |-> <<"Publicado", "hoy">>]
RowNoValue == [label_el |-> TRUE, label |-> <<"Nivel">>, full_text |-> <<"Nivel", " ">>]

DocFull ==
    [h1 |-> <<<<"Villa">>>>, title |-> <<<<"Encuentra24">>>>,
     estate_price |-> <<>>, d3_price |-> <<<<"$", "100,000">>>>, text_price |-> <<"$", "100,000">>,
     insights |-> <<InsightArea, InsightBeds>>, tiles |-> <<TileArea>>,
     details |-> <<RowLocation, RowPublished, RowNoValue>>,
     d3_location |-> <<>>, location |-> <<<<"Centro">>>>,
     about_text |-> <<<<"Amplia">>>>, description_content |-> <<>>,
     gallery |-> <<ImgPlain, ImgEscaped>>, scripts |-> <<ScriptCasas>>, blobs |-> <<BlobList>>]

DocBare ==
    [h1 |-> <<>>, title |-> <<<<"404">>>>,
     estate_price |-> <<>>, d3_price |-> <<>>, text_price |-> <<>>,
     insights |-> <<>>, tiles |-> <<>>, details |-> <<>>,
     d3_location |-> <<>>, location |-> <<>>,
     about_text |-> <<>>, description_content |-> <<>>,
     gallery |-> <<>>, scripts |-> <<>>, blobs |-> <<>>]

Docs == {DocFull, DocBare}

InsightPool ==
    {InsightArea, InsightBeds, InsightBaths, InsightParking, InsightPrice, InsightNoValue}
TilePool == {TileArea, TileBeds, TileBaths, TileParking, TileNoIcon}

GalleryPool == {ImgPlain, ImgEscaped, ImgUnicode, ImgTwice, ImgOther, ImgRelative}
ScriptLists ==
    {<<>>, <<ScriptQuoted>>, <<ScriptBlank>>, <<ScriptCasas>>, <<ScriptEscaped>>,
     <<ScriptQuoted, ScriptBlank>>}
BlobLists == {<<>>, <<BlobList>>, <<BlobPhoto>>, <<BlobList, BlobPhoto>>}

\* what one fetch of a detail page can bring
DetailResponses ==
    [outcome : {"timeout", "connection_error"}, doc : {DocBare}]
        \cup [outcome : {"ok"}, doc : Docs]
        \cup [outcome : {"http_error"}, doc : Docs]

\* ---------------------------------------------------------------- state
VARIABLES
    pc,             \* main: "loop", "return", "scrape", "save", "done"; "idle" elsewhere
    category,       \* "sale" or "rent": the half of main that runs
    max_listings,   \* get_listing_urls: max_listings
    urls,           \* get_listing_urls: urls
    page,           \* get_listing_urls: page
    served,         \* the catalog pages this call of get_listing_urls was served
    sale_urls,      \* main: sale_urls
    rent_urls,      \* main: rent_urls
    i,              \* main: position of the for loop in the URLs of the category
    all_listings,   \* main: all_listings
    attempts,       \* the calls of scrape_listing so far, each with what it returned
    sp_pc,          \* parse_specs: "insight", "tile", "done"; "idle" elsewhere
    sp_insights,    \* the .d3-property-insight__attribute items of the page
    sp_tiles,       \* the .d3-ad-tile__details-item items of the page
    specs,          \* parse_specs: specs
    im_pc,          \* parse_images: "gallery", "scripts", "blobs", "dedup", "done"
    im_gallery,     \* the gallery elements of the page
    im_scripts,     \* the texts of the script elements of the page
    im_blobs,       \* the data-gallery / data-images / data-photo elements
    images,         \* parse_images: images
    photo_urls,     \* the matches of re.findall over the scripts, in order
    unique_images   \* parse_images: unique_images

crawl_vars == <<pc, category, max_listings, urls, page, served, sale_urls, rent_urls,
                i, all_listings, attempts>>
specs_vars == <<sp_pc, sp_insights, sp_tiles, specs>>
images_vars == <<im_pc, im_gallery, im_scripts, im_blobs, images, photo_urls, unique_images>>
vars == <<crawl_vars, specs_vars, images_vars>>

CrawlIdle ==
    /\ pc = "idle" /\ category = "sale" /\ max_listings = 0 /\ urls = <<>> /\ page = 1
    /\ served = <<>> /\ sale_urls = <<>> /\ rent_urls = <<>> /\ i = 1
    /\ all_listings = <<>> /\ attempts = <<>>

SpecsIdle == sp_pc = "idle" /\ sp_insights = <<>> /\ sp_tiles = <<>> /\ specs = EmptyMap

ImagesIdle ==
    /\ im_pc = "idle" /\ im_gallery = <<>> /\ im_scripts = <<>> /\ im_blobs = <<>>
    /\ images = <<>> /\ photo_urls = <<>> /\ unique_images = <<>>

\* ---------------------------------------------------------------- get_listing_urls
BaseUrl == IF category = "sale" THEN SALE_URL ELSE RENT_URL

\* line 33
PageUrl(base_url, p) == IF p = 1 THEN base_url ELSE base_url \o <<".", ToString(p)>>

\* a page without anchors taken for one more page to go through
NoLinksIgnored(links) == FALSE

\* line 39: if not links
NoLinks(links) == links = <<>>

\* the membership test of line 46 left out
IsNewUnchecked(absolute_url, collected) == TRUE

\* line 46: if absolute_url not in urls
IsNew(absolute_url, collected) == ~InSeq(absolute_url, collected)

\* lines 42-49: the for loop over the anchors of one page
RECURSIVE Harvest(_, _, _)
Harvest(collected, links, max) ==
    IF links = <<>> THEN collected
    ELSE LET href == Head(links) IN
         IF href # <<>>
         THEN LET absolute_url == make_absolute_url(href) IN
              IF IsNew(absolute_url, collected)
              THEN LET grown == Append(collected, absolute_url) IN
                   IF Len(grown) >= max THEN grown ELSE Harvest(grown, Tail(links), max)
              ELSE Harvest(collected, Tail(links), max)
         ELSE Harvest(collected, Tail(links), max)

\* Python: urls[:max_listings]
Take(s, n) == SubSeq(s, 1, IF n < Len(s) THEN n ELSE Len(s))

\* lines 32-54: one iteration of the while loop, the page counter going to next_page.
\* A page number the catalog has served before is served the same way again.
LoopIteration(next_page) ==
    /\ pc = "loop"
    /\ Len(urls) < max_listings
    /\ \E resp \in (IF page <= Len(served)
                    THEN {[outcome |-> served[page].outcome, links |-> served[page].links]}
                    ELSE CatalogResponses) :
         /\ served' = IF page <= Len(served) THEN served
                      ELSE Append(served, [page |-> page, url |-> PageUrl(BaseUrl, page),
                                           outcome |-> resp.outcome, links |-> resp.links])
         /\ IF Raises(resp.outcome) \/ NoLinks(resp.links)
            THEN pc' = "return" /\ UNCHANGED <<urls, page>>
            ELSE /\ urls' = Harvest(urls, resp.links, max_listings)
                 /\ page' = next_page
                 /\ pc' = "loop"
    /\ UNCHANGED <<category, max_listings, sale_urls, rent_urls, i, all_listings, attempts>>
    /\ UNCHANGED <<specs_vars, images_vars>>

\* the catalog has at most MaxPage pages to serve
FetchCatalogPage == page <= MaxPage /\ LoopIteration(page + 1)

\* line 32: the while condition fails
LoopExit ==
    /\ pc = "loop"
    /\ Len(urls) >= max_listings
    /\ pc' = "return"
    /\ UNCHANGED <<category, max_listings, urls, page, served, sale_urls, rent_urls, i,
                   all_listings, attempts>>
    /\ UNCHANGED <<specs_vars, images_vars>>

\* line 55: return urls[:max_listings]
Returned == Take(urls, max_listings)

\* line 55 and main lines 222, 233: the call returns, its locals are gone
ReturnUrls ==
    /\ pc = "return"
    /\ IF category = "sale"
       THEN sale_urls' = Returned /\ UNCHANGED rent_urls
       ELSE rent_urls' = Returned /\ UNCHANGED sale_urls
    /\ pc' = "scrape"
    /\ i' = 1
    /\ urls' = <<>> /\ page' = 1 /\ served' = <<>>
    /\ UNCHANGED <<category, max_listings, all_listings, attempts>>
    /\ UNCHANGED <<specs_vars, images_vars>>

\* ---------------------------------------------------------------- main
CategoryUrls == IF category = "sale" THEN sale_urls ELSE rent_urls

\* lines 224-229 and 235-240: one iteration of the for loop
ScrapeListing ==
    /\ pc = "scrape"
    /\ i <= Len(CategoryUrls)
    /\ \E resp \in DetailResponses :
         LET url == CategoryUrls[i]
             data == scrape_listing(url, category, resp.outcome, resp.doc)
         IN /\ all_listings' = IF Truthy(data) THEN Append(all_listings, data)
                               ELSE all_listings
            /\ attempts' = Append(attempts, [url |-> url, listing_type |-> category,
                                             outcome |-> resp.outcome, data |-> data])
    /\ i' = i + 1
    /\ UNCHANGED <<pc, category, max_listings, urls, page, served, sale_urls, rent_urls>>
    /\ UNCHANGED <<specs_vars, images_vars>>

\* line 233: the sale loop is over, get_listing_urls(RENT_URL, max_listings=50) starts
StartRent ==
    /\ pc = "scrape" /\ category = "sale" /\ i > Len(sale_urls)
    /\ category' = "rent"
    /\ pc' = "loop"
    /\ UNCHANGED <<max_listings, urls, page, served, sale_urls, rent_urls, i,
                   all_listings, attempts>>
    /\ UNCHANGED <<specs_vars, images_vars>>

\* lines 243-249: the rent loop is over, the result is written
Save ==
    /\ pc = "scrape" /\ category = "rent" /\ i > Len(rent_urls)
    /\ pc' = "done"
    /\ UNCHANGED <<category, max_listings, urls, page, served, sale_urls, rent_urls, i,
                   all_listings, attempts>>
    /\ UNCHANGED <<specs_vars, images_vars>>

\* main starts with get_listing_urls(SALE_URL, max_listings); the code passes 50
Init ==
    /\ pc = "loop" /\ category = "sale" /\ max_listings \in 0..MaxListings
    /\ urls = <<>> /\ page = 1 /\ served = <<>>
    /\ sale_urls = <<>> /\ rent_urls = <<>> /\ i = 1
    /\ all_listings = <<>> /\ attempts = <<>>
    /\ SpecsIdle /\ ImagesIdle

Next ==
    \/ FetchCatalogPage
    \/ LoopExit
    \/ ReturnUrls
    \/ ScrapeListing
    \/ StartRent
    \/ Save

Spec == Init /\ [][Next]_vars

\* the loop of get_listing_urls against a catalog of period MaxPage: page p + MaxPage
\* is served as page p is, and the page counter is kept up to that period
FetchPeriodicPage == LoopIteration((page % MaxPage) + 1)

LiveNext ==
    \/ FetchPeriodicPage
    \/ LoopExit
    \/ ReturnUrls
    \/ ScrapeListing
    \/ StartRent
    \/ Save

\* main is one sequential thread: it takes its next step whenever it has one
LiveSpec == Init /\ [][LiveNext]_vars /\ WF_vars(LiveNext)

\* ---------------------------------------------------------------- catalog paginator
RECURSIVE AbsoluteLinks(_)
AbsoluteLinks(links) ==
    IF links = <<>> THEN <<>>
    ELSE (IF Head(links) = <<>> THEN <<>> ELSE <<make_absolute_url(Head(links))>>)
             \o AbsoluteLinks(Tail(links))

\* every listing URL on the pages of a log, in page order and anchor order
RECURSIVE Discovered(_)
Discovered(log) ==
    IF log = <<>> THEN <<>>
    ELSE Discovered(SubSeq(log, 1, Len(log) - 1))
             \o (IF Raises(log[Len(log)].outcome) THEN <<>>
                 ELSE AbsoluteLinks(log[Len(log)].links))

RECURSIVE FirstFrom(_, _)
FirstFrom(s, k) ==
    IF k > Len(s) THEN <<>>
    ELSE (IF \A j \in 1..(k - 1) : s[j] # s[k] THEN <<s[k]>> ELSE <<>>) \o FirstFrom(s, k + 1)

\* the elements of s, each at the place of its first occurrence
FirstOccurrences(s) == FirstFrom(s, 1)

NoDuplicates(s) == \A j, k \in 1..Len(s) : j # k => s[j] # s[k]

\* C1: the sequence get_listing_urls returns holds no URL twice, is no longer than
\* max_listings, and lists the URLs in the order of their first discovery over the
\* pages fetched; an anchor seen again adds nothing and moves nothing.
C1_UniqueFirstSeenBounded ==
    /\ pc \in {"loop", "return"} =>
          urls = Take(FirstOccurrences(Discovered(served)), max_listings)
    /\ pc = "return" =>
          /\ NoDuplicates(Returned)
          /\ Len(Returned) <= max_listings
          /\ Returned = Take(FirstOccurrences(Discovered(served)), max_listings)
    /\ NoDuplicates(sale_urls) /\ Len(sale_urls) <= max_listings
    /\ NoDuplicates(rent_urls) /\ Len(rent_urls) <= max_listings

\* a call about to return max_listings URLs after pages that repeated an anchor
C1_Witness ==
    /\ pc = "return" /\ max_listings = 2 /\ Len(Returned) = 2
    /\ Len(served) >= 2
    /\ Len(Discovered(served)) > 2
    /\ Discovered(<<served[1]>>) # <<>>
    /\ InSeq(Discovered(<<served[1]>>)[1], Discovered(<<served[2]>>))

\* a page that ends the pagination: it has no anchors, or its fetch raised
Stops(entry) == Raises(entry.outcome) \/ entry.links = <<>>

C3_CrawlCompletes == <>(pc = "done")

\* ---------------------------------------------------------------- crawl result
\* C4: a record is added only when the fetch of its detail page succeeded: a fetch
\* that ends in a timeout, a connection error or a non-2xx response makes
\* scrape_listing return None, and all_listings gets no record from it.
C4_RecordOnlyIfFetchSucceeded ==
    /\ \A k \in 1..Len(attempts) : attempts[k].outcome # "ok" => attempts[k].data = None
    /\ Len(all_listings) = Cardinality({k \in 1..Len(attempts) : attempts[k].outcome = "ok"})

IsRecord(attempt) == attempt.data # None

DataOf(log) == [k \in 1..Len(log) |-> log[k].data]

UrlsOf(log) == [k \in 1..Len(log) |-> log[k].url]

\* C5: all_listings is the records of the attempts that returned one, in the order
\* of the attempts; after the run every discovered URL was attempted, the sale URLs
\* in discovery order, then the rent URLs, each under the category that found it.
C5_ResultIsNonNullInDiscoveryOrder ==
    /\ all_listings = DataOf(SelectSeq(attempts, IsRecord))
    /\ \A k \in 1..Len(all_listings) : all_listings[k] # None
    /\ pc = "done" =>
          /\ UrlsOf(attempts) = sale_urls \o rent_urls
          /\ \A k \in 1..Len(attempts) :
                /\ attempts[k].listing_type = (IF k <= Len(sale_urls) THEN "sale" ELSE "rent")
                /\ IsRecord(attempts[k]) =>
                      /\ attempts[k].data.url = attempts[k].url
                      /\ attempts[k].data.listing_type = attempts[k].listing_type
          /\ \A j, k \in 1..Len(all_listings) :
                j < k => ~(all_listings[j].listing_type = "rent"
                           /\ all_listings[k].listing_type = "sale")

\* a finished run whose first sale listing failed, whose second did not, and which
\* has a rent record
C5_Witness ==
    /\ pc = "done" /\ Len(sale_urls) = 2 /\ Len(rent_urls) >= 1
    /\ attempts[1].data = None /\ attempts[2].data # None
    /\ attempts[Len(attempts)].data # None

\* id is the last "/"-separated segment of url once its trailing slashes are gone
IsFinalSegment(url, id) ==
    \E n \in 0..Len(url) :
        /\ \A m \in (n + 1)..Len(url) : url[m] = SL
        /\ n = 0 \/ url[n] # SL
        /\ ~InSeq(SL, id)
        /\ Len(id) <= n
        /\ SubSeq(url, n - Len(id) + 1, n) = id
        /\ n = Len(id) \/ url[n - Len(id)] = SL

\* C9: external_id is the final "/"-separated segment of url with the trailing
\* slash removed, is the same for the same url, and is not empty unless url is.
C9_ExternalIdIsFinalSegment ==
    /\ \A k \in 1..Len(all_listings) :
          /\ IsFinalSegment(all_listings[k].url, all_listings[k].external_id)
          /\ all_listings[k].url # <<>> => all_listings[k].external_id # <<>>
    /\ \A j, k \in 1..Len(all_listings) :
          all_listings[j].url = all_listings[k].url
              => all_listings[j].external_id = all_listings[k].external_id

\* a record whose url ends in a slash, and the same url recorded for sale and for rent
C9_Witness ==
    \E j, k \in 1..Len(all_listings) :
        /\ all_listings[j].url = BASE_URL \o HrefB
        /\ all_listings[j].external_id = <<"b">>
        /\ all_listings[k].url = all_listings[j].url
        /\ all_listings[k].listing_type # all_listings[j].listing_type

\* ---------------------------------------------------------------- parse_specs, by pass
\* lines 62-77
InsightAttributes ==
    /\ sp_pc = "insight"
    /\ specs' = InsightPass(specs, sp_insights)
    /\ sp_pc' = "tile"
    /\ UNCHANGED <<sp_insights, sp_tiles, crawl_vars, images_vars>>

\* lines 80-94
TileDetails ==
    /\ sp_pc = "tile"
    /\ specs' = TilePass(specs, sp_tiles)
    /\ sp_pc' = "done"
    /\ UNCHANGED <<sp_insights, sp_tiles, crawl_vars, images_vars>>

SpecsInit ==
    /\ sp_pc = "insight"
    /\ sp_insights \in SeqsUpTo(InsightPool, MaxItems)
    /\ sp_tiles \in SeqsUpTo(TilePool, MaxItems)
    /\ specs = EmptyMap
    /\ CrawlIdle /\ ImagesIdle

SpecsNext ==
    \/ InsightAttributes
    \/ TileDetails

SpecsSpec == SpecsInit /\ [][SpecsNext]_vars

\* C6: when the insight-attribute pass and the icon-tile pass both classify a value
\* for a key, the map returned holds the value of the insight-attribute pass.
C6_InsightPassWins ==
    sp_pc = "done" =>
        \A key \in (DOMAIN InsightPass(EmptyMap, sp_insights))
                       \cap (DOMAIN TilePass(EmptyMap, sp_tiles)) :
            specs[key] = InsightPass(EmptyMap, sp_insights)[key]

\* ---------------------------------------------------------------- parse_images, by pass
RECURSIVE AllMatches(_, _)
AllMatches(texts, stop) ==
    IF texts = <<>> THEN <<>>
    ELSE FindAll(Head(texts), stop) \o AllMatches(Tail(texts), stop)

\* lines 117-123
GalleryStep ==
    /\ im_pc = "gallery"
    /\ images' = GalleryPass(images, im_gallery)
    /\ im_pc' = "scripts"
    /\ UNCHANGED <<im_gallery, im_scripts, im_blobs, photo_urls, unique_images>>
    /\ UNCHANGED <<crawl_vars, specs_vars>>

\* lines 126-132
ScriptStep ==
    /\ im_pc = "scripts"
    /\ photo_urls' = AllMatches(im_scripts, StopScript)
    /\ images' = ScriptPass(images, im_scripts)
    /\ im_pc' = "blobs"
    /\ UNCHANGED <<im_gallery, im_scripts, im_blobs, unique_images>>
    /\ UNCHANGED <<crawl_vars, specs_vars>>

\* lines 135-140
BlobStep ==
    /\ im_pc = "blobs"
    /\ images' = BlobPass(images, im_blobs)
    /\ im_pc' = "dedup"
    /\ UNCHANGED <<im_gallery, im_scripts, im_blobs, photo_urls, unique_images>>
    /\ UNCHANGED <<crawl_vars, specs_vars>>

\* lines 143-152
DedupStep ==
    /\ im_pc = "dedup"
    /\ unique_images' = Deduplicate(<<>>, images)
    /\ im_pc' = "done"
    /\ UNCHANGED <<im_gallery, im_scripts, im_blobs, images, photo_urls>>
    /\ UNCHANGED <<crawl_vars, specs_vars>>

ImagesInit ==
    /\ im_pc = "gallery"
    /\ im_gallery \in SeqsUpTo(GalleryPool, MaxGallery)
    /\ im_scripts \in ScriptLists
    /\ im_blobs \in BlobLists
    /\ images = <<>> /\ photo_urls = <<>> /\ unique_images = <<>>
    /\ CrawlIdle /\ SpecsIdle

ImagesNext ==
    \/ GalleryStep
    \/ ScriptStep
    \/ BlobStep
    \/ DedupStep

ImagesSpec == ImagesInit /\ [][ImagesNext]_vars

\* every URL the three passes harvest, in the order gallery, scripts, data blobs
RECURSIVE BlobTexts(_)
BlobTexts(els) == IF els = <<>> THEN <<>> ELSE <<BlobData(Head(els))>> \o BlobTexts(Tail(els))

HarvestedRaw ==
    GalleryPass(<<>>, im_gallery) \o AllMatches(im_scripts, StopScript)
        \o AllMatches(BlobTexts(im_blobs), StopBlob)

\* C7: no two entries of the images returned are equal once \u002F and \/ are
\* replaced by /, and the entries are in the order of the first occurrence of each
\* normalized URL over the gallery pass, the script pass and the data-blob pass.
C7_ImagesUniqueAfterNormalization ==
    im_pc = "done" =>
        /\ \A j, k \in 1..Len(unique_images) :
              j # k => CleanUrl(unique_images[j]) # CleanUrl(unique_images[k])
        /\ unique_images
              = FirstOccurrences([k \in 1..Len(HarvestedRaw) |-> CleanUrl(HarvestedRaw[k])])

\* C8: the normalize-and-dedup step applied to its own output returns that output.
C8_DedupIdempotent ==
    im_pc = "done" => Deduplicate(<<>>, unique_images) = unique_images

\* white space and quotes, the blank being the white space of the model
BlankOrQuote == {" ", "\"", "'"}

\* C10: each URL the script pass finds is the photo-host prefix followed by the
\* longest run of characters up to the next white space or quote, and nothing else
\* ends a match.
C10_ScriptMatchEndsAtBlankOrQuote ==
    im_pc \in {"blobs", "dedup", "done"} => photo_urls = AllMatches(im_scripts, BlankOrQuote)

====
